---------------------------- MODULE Spec2Model ----------------------------
(***************************************************************************)
(* The USD scoring engine of the macro-usd-bot (telegram_bot/              *)
(* scoring_engine.py, data_ingestor.py, config.py), the handlers of the    *)
(* bot that call it (telegram_bot/main.py), the hit criteria of            *)
(* telegram_bot/hit_rate_tracker.py, and the two other scores of the       *)
(* repository (dynamic_data_engine.py, macro_usd_bot_completo.py).  Each   *)
(* part has its own specification over the same variables.                 *)
(*                                                                         *)
(* Numbers.  The program computes with Python floats.  The model computes  *)
(* with exact decimals and exact fractions:                                *)
(*   - actual, consensus and previous are integers counting thousandths    *)
(*     (3.9 is 3900, 0.20 is 200);                                         *)
(*   - a weight is an integer counting hundredths (1.2 is 120);            *)
(*   - a surprise percentage, a score and a raw score are fractions        *)
(*     [n |-> numerator, d |-> denominator] with d > 0, compared by        *)
(*     cross-multiplication.                                               *)
(* The float quotient of the program can differ from the exact fraction in *)
(* its last bit when a weight is not a binary fraction: for CPI -1 (weight *)
(* 1.0), NFP +2 (1.2) and NFP 0 (0.6) the program computes                 *)
(* 0.49999999999999994 where the exact score is 0.5.  Classification and   *)
(* confidence are derived from the stored score in the program and in the  *)
(* model alike.                                                            *)
(* An Optional[float] is a sequence: <<>> is None, <<v>> is the value v.   *)
(* The confidence label 'Média' is written "Media".                        *)
(***************************************************************************)
EXTENDS Integers, Sequences, FiniteSets

VARIABLES
    data_points,   \* the data points handed to (or collected by) the callee
    analysis,      \* the analyses calculate_usd_score returned, in call order
    pc,            \* the position of the operation under way
    clock,         \* what datetime.now() returns
    args,          \* the arguments of the other operations
    result,        \* what the other operations returned
    responses,     \* what the data sources answered, event by event
    sent,          \* the Telegram messages sent, in order
    predictions    \* the rows of the predictions table, in order

vars == <<data_points, analysis, pc, clock, args, result, responses, sent,
          predictions>>

----------------------------------------------------------------------------
(* Optional values and fractions *)

None == <<>>

Some(v) == <<v>>

IsNone(x) == x = <<>>

Val(x) == x[1]

Abs(x) == IF x < 0 THEN -x ELSE x

Frac(num, den) == [n |-> num, d |-> den]

Zero == Frac(0, 1)

\* f <= k, f >= k, f < k, f > k for a fraction f and an integer k
FracLe(f, k) == f.n <= k * f.d

FracGe(f, k) == f.n >= k * f.d

FracLt(f, k) == f.n < k * f.d

FracGt(f, k) == f.n > k * f.d

\* f <= k/2 and f >= k/2 (the classification thresholds are halves)
FracLeHalf(f, k) == 2 * f.n <= k * f.d

FracGeHalf(f, k) == 2 * f.n >= k * f.d

FracEq(f, g) == f.n * g.d = g.n * f.d

FracAbs(f) == Frac(Abs(f.n), f.d)

FracNeg(f) == Frac(-f.n, f.d)

\* ((value - baseline) / abs(baseline)) * 100, baseline # 0
SurprisePct(value, baseline) == Frac((value - baseline) * 100, Abs(baseline))

----------------------------------------------------------------------------
(* data_ingestor.py: EconomicDataPoint *)

\* The dataclass constructor followed by __post_init__.
EconomicDataPoint(indicator, actual, consensus, previous, surprise_pct) ==
    [indicator |-> indicator,
     actual |-> actual,
     consensus |-> consensus,
     previous |-> previous,
     surprise_pct |->
        IF IsNone(surprise_pct) /\ ~IsNone(actual) /\ ~IsNone(consensus)
        THEN IF Val(consensus) # 0
             THEN Some(SurprisePct(Val(actual), Val(consensus)))
             ELSE Some(Zero)
        ELSE surprise_pct]

----------------------------------------------------------------------------
(* config.py: Config._load_indicators_config, weights in hundredths *)

indicators_config ==
    [NFP           |-> [weight |-> 120, inversion |-> FALSE],
     UNEMPLOYMENT  |-> [weight |-> 100, inversion |-> TRUE],
     AHE           |-> [weight |-> 60,  inversion |-> FALSE],
     ADP           |-> [weight |-> 50,  inversion |-> FALSE],
     CPI           |-> [weight |-> 100, inversion |-> FALSE],
     CORE_CPI      |-> [weight |-> 120, inversion |-> FALSE],
     PCE           |-> [weight |-> 80,  inversion |-> FALSE],
     CORE_PCE      |-> [weight |-> 120, inversion |-> FALSE],
     ISM_MFG       |-> [weight |-> 60,  inversion |-> FALSE],
     ISM_SERVICES  |-> [weight |-> 80,  inversion |-> FALSE],
     CLAIMS        |-> [weight |-> 30,  inversion |-> TRUE],
     FOMC          |-> [weight |-> 140, inversion |-> FALSE],
     POWELL_SPEECH |-> [weight |-> 120, inversion |-> FALSE]]

\* Config.get_indicator_config returns {} for an unknown indicator, which the
\* caller tests with "if not indicator_config".
HasIndicatorConfig(indicator) == indicator \in DOMAIN indicators_config

get_indicator_config(indicator) == indicators_config[indicator]

----------------------------------------------------------------------------
(* scoring_engine.py: ScoringEngine *)

_normalize_indicator_name(indicator) ==
    CASE indicator = "Nonfarm Payrolls" -> "NFP"
      [] indicator = "Unemployment Rate" -> "UNEMPLOYMENT"
      [] indicator = "Average Hourly Earnings" -> "AHE"
      [] indicator = "ADP Employment Change" -> "ADP"
      [] indicator = "Consumer Price Index" -> "CPI"
      [] indicator = "Core CPI" -> "CORE_CPI"
      [] indicator = "Personal Consumption Expenditures" -> "PCE"
      [] indicator = "Core PCE" -> "CORE_PCE"
      [] indicator = "ISM Manufacturing PMI" -> "ISM_MFG"
      [] indicator = "ISM Services PMI" -> "ISM_SERVICES"
      [] indicator = "Initial Jobless Claims" -> "CLAIMS"
      [] indicator = "FOMC Rate Decision" -> "FOMC"
      [] OTHER -> indicator

\* The last ladder of _map_surprise_to_score, on the surprise percentage.
DefaultLadder(surprise_pct) ==
    IF FracLe(surprise_pct, -20) THEN -2
    ELSE IF FracLe(surprise_pct, -5) THEN -1
    ELSE IF FracGe(surprise_pct, -5) /\ FracLe(surprise_pct, 5) THEN 0
    ELSE IF FracLe(surprise_pct, 20) THEN 1
    ELSE 2

\* The percentage-point ladder of CPI, CORE_CPI, PCE, CORE_PCE and AHE;
\* delta_pp in thousandths (-0.20 is -200).
InflationLadder(delta_pp) ==
    IF delta_pp <= -200 THEN -2
    ELSE IF delta_pp <= -100 THEN -1
    ELSE IF -90 <= delta_pp /\ delta_pp <= 90 THEN 0
    ELSE IF delta_pp <= 190 THEN 1
    ELSE 2

\* The ladder of UNEMPLOYMENT: the signs are already those of the USD.
UnemploymentLadder(delta_pp) ==
    IF delta_pp <= -200 THEN 2
    ELSE IF delta_pp <= -100 THEN 1
    ELSE IF -90 <= delta_pp /\ delta_pp <= 90 THEN 0
    ELSE IF delta_pp <= 190 THEN -1
    ELSE -2

\* The ladder of NFP and ADP, on the surprise percentage.
EmploymentLadder(surprise_pct) ==
    IF FracLe(surprise_pct, -30) THEN -2
    ELSE IF FracLe(surprise_pct, -10) THEN -1
    ELSE IF FracGe(surprise_pct, -10) /\ FracLe(surprise_pct, 10) THEN 0
    ELSE IF FracLe(surprise_pct, 30) THEN 1
    ELSE 2

\* The ladder of ISM_MFG and ISM_SERVICES; delta_pts in thousandths.
IsmLadder(delta_pts) ==
    IF delta_pts < -2000 THEN -1
    ELSE IF -2000 <= delta_pts /\ delta_pts <= 2000 THEN 0
    ELSE 1

\* The ladder of CLAIMS, on the surprise percentage.
ClaimsLadder(surprise_pct) ==
    IF FracGe(surprise_pct, 20) THEN -1
    ELSE IF FracLe(surprise_pct, -20) THEN 1
    ELSE 0

_map_surprise_to_score(indicator, surprise_pct, actual, consensus) ==
    LET both == ~IsNone(actual) /\ ~IsNone(consensus)
        delta == Val(actual) - Val(consensus)
    IN  IF indicator \in {"CPI", "CORE_CPI", "PCE", "CORE_PCE"}
        THEN IF both THEN InflationLadder(delta)
             ELSE DefaultLadder(surprise_pct)
        ELSE IF indicator \in {"NFP", "ADP"}
        THEN EmploymentLadder(surprise_pct)
        ELSE IF indicator = "UNEMPLOYMENT"
        THEN IF both THEN UnemploymentLadder(delta)
             ELSE DefaultLadder(surprise_pct)
        ELSE IF indicator = "AHE"
        THEN IF both THEN InflationLadder(delta)
             ELSE DefaultLadder(surprise_pct)
        ELSE IF indicator \in {"ISM_MFG", "ISM_SERVICES"}
        THEN IF both THEN IsmLadder(delta)
             ELSE DefaultLadder(surprise_pct)
        ELSE IF indicator = "CLAIMS"
        THEN ClaimsLadder(surprise_pct)
        ELSE DefaultLadder(surprise_pct)


\* ComponentSurprise without the test "consensus != 0" of line 144: the
\* division of line 145 is by abs(0).
ComponentSurpriseUnguarded(data_point) ==
    LET given == IF IsNone(data_point.surprise_pct) THEN Zero
                 ELSE Val(data_point.surprise_pct)
    IN  IF ~IsNone(data_point.actual) /\ ~IsNone(data_point.consensus)
        THEN SurprisePct(Val(data_point.actual), Val(data_point.consensus))
        ELSE given

\* Lines 141-149: the surprise percentage the score is mapped from.  A
\* fraction with denominator 0 stands for the ZeroDivisionError of a division
\* by zero.
ComponentSurprise(data_point) ==
    LET given == IF IsNone(data_point.surprise_pct) THEN Zero
                 ELSE Val(data_point.surprise_pct)
    IN  IF ~IsNone(data_point.actual) /\ ~IsNone(data_point.consensus)
        THEN IF Val(data_point.consensus) # 0
             THEN SurprisePct(Val(data_point.actual), Val(data_point.consensus))
             ELSE IF ~IsNone(data_point.previous) /\ Val(data_point.previous) # 0
                  THEN SurprisePct(Val(data_point.actual), Val(data_point.previous))
                  ELSE given
        ELSE given

\* Lines 156-158: "Apply inversion if needed (e.g., unemployment)".
ApplyInversion(indicator_config, component_score) ==
    IF indicator_config.inversion THEN component_score * (-1)
    ELSE component_score

\* ComponentWeight without the discount for a missing consensus.
ComponentWeightNoDiscount(indicator_config, data_point) ==
    indicator_config.weight

\* Lines 160-167: the configured weight, halved when there is no consensus.
\* Every configured weight is an even number of hundredths.
ComponentWeight(indicator_config, data_point) ==
    IF IsNone(data_point.consensus) THEN indicator_config.weight \div 2
    ELSE indicator_config.weight

\* In hundredths: 1.0, or 0.7 when there is no consensus.
_calculate_component_confidence(data_point, indicator_config) ==
    IF IsNone(data_point.consensus) THEN 70 ELSE 100

\* None (no configuration for the indicator, or an exception caught at lines
\* 180-182) or Some(ComponentScore).
_calculate_component_score(data_point) ==
    LET indicator_name == _normalize_indicator_name(data_point.indicator)
    IN  IF ~HasIndicatorConfig(indicator_name) THEN None
        ELSE
        LET indicator_config == get_indicator_config(indicator_name)
            surprise_pct == ComponentSurprise(data_point)
            mapped == _map_surprise_to_score(indicator_name, surprise_pct,
                          data_point.actual, data_point.consensus)
        IN  IF surprise_pct.d = 0 THEN None
            ELSE
            Some([indicator |-> indicator_name,
                  actual |-> data_point.actual,
                  consensus |-> data_point.consensus,
                  previous |-> data_point.previous,
                  surprise_pct |-> surprise_pct,
                  component_score |-> ApplyInversion(indicator_config, mapped),
                  weight |-> ComponentWeight(indicator_config, data_point),
                  confidence_factor |->
                      _calculate_component_confidence(data_point, indicator_config)])

_classify_score(score) ==
    IF FracGeHalf(score, 3) THEN "USD Forte"
    ELSE IF FracGeHalf(score, 1) THEN "Levemente Forte"
    ELSE IF FracGeHalf(score, -1) /\ FracLeHalf(score, 1) THEN "Neutro"
    ELSE IF FracGeHalf(score, -3) THEN "Levemente Fraco"
    ELSE "USD Fraco"

\* sum(1 for c in components if c.component_score > 0) and its negative twin
RECURSIVE CountPositive(_)
CountPositive(components) ==
    IF components = <<>> THEN 0
    ELSE (IF Head(components).component_score > 0 THEN 1 ELSE 0)
         + CountPositive(Tail(components))

RECURSIVE CountNegative(_)
CountNegative(components) ==
    IF components = <<>> THEN 0
    ELSE (IF Head(components).component_score < 0 THEN 1 ELSE 0)
         + CountNegative(Tail(components))

Min(a, b) == IF a <= b THEN a ELSE b

\* _calculate_confidence without the test for conflicting signals.
ConfidenceIgnoringConflict(components, score) ==
    IF components = <<>> THEN "Baixa"
    ELSE IF FracGeHalf(FracAbs(score), 3) /\ Len(components) >= 3 THEN "Alta"
    ELSE IF Len(components) >= 2 THEN "Media"
    ELSE "Baixa"

\* _calculate_confidence with the 'Alta' threshold at 0.5 instead of 1.5.
ConfidenceLowThreshold(components, score) ==
    IF components = <<>> THEN "Baixa"
    ELSE IF /\ FracGeHalf(FracAbs(score), 1)
            /\ Len(components) >= 3
            /\ Min(CountPositive(components), CountNegative(components)) <= 1
    THEN "Alta"
    ELSE IF Len(components) >= 2 THEN "Media"
    ELSE "Baixa"

_calculate_confidence(components, score) ==
    IF components = <<>> THEN "Baixa"
    ELSE IF /\ FracGeHalf(FracAbs(score), 3)
            /\ Len(components) >= 3
            /\ Min(CountPositive(components), CountNegative(components)) <= 1
    THEN "Alta"
    ELSE IF Len(components) >= 2 THEN "Media"
    ELSE "Baixa"

\* The probabilities of _generate_scenarios (base, alternative).
ScenarioProbabilities(score) ==
    LET base_prob == IF FracGeHalf(FracAbs(score), 3) THEN 75
                     ELSE IF FracLeHalf(FracAbs(score), 1) THEN 55
                     ELSE 65
    IN  <<base_prob, 100 - base_prob>>

directional_mapping(classification) ==
    CASE classification = "USD Forte" -> "VENDA EUR/USD, GBP/USD; COMPRA USD/JPY"
      [] classification = "Levemente Forte" -> "Vies de venda EUR/USD"
      [] classification = "Neutro" -> "Aguardar confirmacao direcional"
      [] classification = "Levemente Fraco" -> "Vies de compra EUR/USD"
      [] classification = "USD Fraco" -> "COMPRA EUR/USD, GBP/USD; VENDA USD/JPY"
      [] OTHER -> "Aguardar dados"

\* The fields of USDAnalysis the model keeps, with the timestamp the
\* constructor is given (timestamp=datetime.now(), lines 114 and 429).
USDAnalysis(timestamp, fields) ==
    [timestamp |-> timestamp,
     indicators |-> fields.indicators,
     raw_score |-> fields.raw_score,
     score |-> fields.score,
     classification |-> fields.classification,
     confidence |-> fields.confidence,
     base_probability |-> fields.base_probability,
     alternative_probability |-> fields.alternative_probability,
     directional_suggestion |-> fields.directional_suggestion]

\* _create_empty_analysis with the confidence of a two-component analysis.
EmptyAnalysisMediumConfidence ==
    [indicators |-> <<>>,
     raw_score |-> Zero,
     score |-> Zero,
     classification |-> "Neutro",
     confidence |-> "Media",
     base_probability |-> 50,
     alternative_probability |-> 50,
     directional_suggestion |-> "Aguardar dados confirmatorios"]

\* Every field of _create_empty_analysis but the timestamp.
_create_empty_analysis ==
    [indicators |-> <<>>,
     raw_score |-> Zero,
     score |-> Zero,
     classification |-> "Neutro",
     confidence |-> "Baixa",
     base_probability |-> 50,
     alternative_probability |-> 50,
     directional_suggestion |-> "Aguardar dados confirmatorios"]

\* Lines 85-88: the components of the data points that yield one, in order.
RECURSIVE ComponentScores(_)
ComponentScores(points) ==
    IF points = <<>> THEN <<>>
    ELSE LET component == _calculate_component_score(Head(points))
         IN  (IF IsNone(component) THEN <<>> ELSE <<Val(component)>>)
             \o ComponentScores(Tail(points))

\* sum(comp.component_score * comp.weight for comp in component_scores)
RECURSIVE WeightedSum(_)
WeightedSum(component_scores) ==
    IF component_scores = <<>> THEN 0
    ELSE Head(component_scores).component_score * Head(component_scores).weight
         + WeightedSum(Tail(component_scores))

\* sum(comp.weight for comp in component_scores)
RECURSIVE TotalWeight(_)
TotalWeight(component_scores) ==
    IF component_scores = <<>> THEN 0
    ELSE Head(component_scores).weight + TotalWeight(Tail(component_scores))

RECURSIVE ScoreSum(_)
ScoreSum(component_scores) ==
    IF component_scores = <<>> THEN 0
    ELSE Head(component_scores).component_score + ScoreSum(Tail(component_scores))

\* UsdScore divided by the weights of all configured indicators.
RECURSIVE ConfiguredWeight(_)
ConfiguredWeight(names) ==
    IF names = {} THEN 0
    ELSE LET k == CHOOSE name \in names : TRUE
         IN  indicators_config[k].weight + ConfiguredWeight(names \ {k})

UsdScoreFixedDenominator(component_scores) ==
    Frac(WeightedSum(component_scores), ConfiguredWeight(DOMAIN indicators_config))

\* UsdScore without the division: the weighted sum itself (weights count
\* hundredths).
UsdScoreUnnormalised(component_scores) ==
    Frac(WeightedSum(component_scores), 100)

\* Line 98: weighted_sum / total_weight if total_weight > 0 else 0
UsdScore(component_scores) ==
    IF TotalWeight(component_scores) > 0
    THEN Frac(WeightedSum(component_scores), TotalWeight(component_scores))
    ELSE Zero

\* Every field of the returned USDAnalysis but the timestamp.
calculate_usd_score(points) ==
    IF points = <<>> THEN _create_empty_analysis
    ELSE
    LET component_scores == ComponentScores(points)
    IN  IF component_scores = <<>> THEN _create_empty_analysis
        ELSE
        LET raw_score == Frac(ScoreSum(component_scores), Len(component_scores))
            usd_score == UsdScore(component_scores)
            classification == _classify_score(usd_score)
            confidence == _calculate_confidence(component_scores, usd_score)
            probabilities == ScenarioProbabilities(usd_score)
        IN  \* lines 126-128: an exception ends in _create_empty_analysis
            IF raw_score.d = 0 \/ usd_score.d = 0 THEN _create_empty_analysis
            ELSE
            [indicators |-> component_scores,
             raw_score |-> raw_score,
             score |-> usd_score,
             classification |-> classification,
             confidence |-> confidence,
             base_probability |-> probabilities[1],
             alternative_probability |-> probabilities[2],
             directional_suggestion |-> directional_mapping(classification)]

----------------------------------------------------------------------------
(* The inputs: the data points a caller hands to calculate_usd_score.  All  *)
(* are built as the ingestor builds them, with surprise_pct=None.  The      *)
(* payroll and claims figures are in millions (0.220 is 220 thousandths),   *)
(* which keeps every cross-multiplication within TLC's 32-bit integers.     *)

MaxPoints == 3

MaxConflictPoints == 5

Observation(indicator, actual, consensus, previous) ==
    EconomicDataPoint(indicator, actual, consensus, previous, None)

NfpStrong == Observation("Nonfarm Payrolls", Some(220), Some(150), Some(140))

NfpPreviousOnly == Observation("Nonfarm Payrolls", Some(200), None, Some(150))

UnemploymentBelow == Observation("Unemployment Rate", Some(3900), Some(4200), Some(4100))

UnemploymentFlat == Observation("UNEMPLOYMENT", Some(4000), Some(4000), None)

CpiHot == Observation("Consumer Price Index", Some(3300), Some(3000), Some(3100))

CpiWarm == Observation("CPI", Some(3150), Some(3000), None)

CpiCool == Observation("CPI", Some(2900), Some(3000), None)

CpiCold == Observation("CPI", Some(2800), Some(3000), None)

CpiFred == Observation("Consumer Price Index", Some(3000), None, None)

CoreCpiNoActual == Observation("Core CPI", None, Some(3000), Some(2900))

ClaimsAbove == Observation("Initial Jobless Claims", Some(320), Some(260), Some(250))

ClaimsBelow == Observation("Initial Jobless Claims", Some(200), Some(260), Some(250))

AdpWeak == Observation("ADP Employment Change", Some(60), Some(100), None)

AdpZeroConsensus == Observation("ADP", Some(50), Some(0), Some(40))

FomcHike == Observation("FOMC Rate Decision", Some(5500), Some(4500), None)

GdpUnknown == Observation("GDP Growth Rate", Some(3000), Some(2500), None)

DataPointSet ==
    {NfpStrong, NfpPreviousOnly, UnemploymentBelow, UnemploymentFlat,
     CpiHot, CpiWarm, CpiCool, CpiCold, CpiFred, CoreCpiNoActual,
     ClaimsAbove, ClaimsBelow, AdpWeak, AdpZeroConsensus, FomcHike, GdpUnknown}

\* Longer lists over fewer observations: strong scores with conflicting signs.
ConflictSet == {FomcHike, ClaimsBelow, AdpWeak}

SeqsUpTo(S, max) == UNION {[1..len -> S] : len \in 0..max}

----------------------------------------------------------------------------
(* The state machine: one call of ScoringEngine.calculate_usd_score *)

\* The variables of the bot, the ingestor and the other engines: untouched
\* by the scoring engine.
others == <<args, result, responses, sent, predictions>>

OthersIdle ==
    /\ args = <<>>
    /\ result = <<>>
    /\ responses = <<>>
    /\ sent = <<>>
    /\ predictions = <<>>

Init ==
    /\ data_points \in SeqsUpTo(DataPointSet, MaxPoints)
                       \cup SeqsUpTo(ConflictSet, MaxConflictPoints)
    /\ analysis = <<>>
    /\ pc = "ready"
    /\ clock = 0
    /\ OthersIdle

CalculateUsdScore ==
    /\ pc = "ready"
    /\ analysis' = <<USDAnalysis(clock, calculate_usd_score(data_points))>>
    /\ pc' = "done"
    /\ UNCHANGED <<data_points, clock, others>>

Next == CalculateUsdScore

Spec == Init /\ [][Next]_vars

\* The analysis the call returned.
Returned == analysis[1]

----------------------------------------------------------------------------
(* Helpers of the properties *)

Components == Returned.indicators

ComponentIndices == 1..Len(Components)

RECURSIVE SumContributions(_, _)
SumContributions(components, k) ==
    IF k = 0 THEN 0
    ELSE components[k].component_score * components[k].weight
         + SumContributions(components, k - 1)

RECURSIVE SumWeights(_, _)
SumWeights(components, k) ==
    IF k = 0 THEN 0
    ELSE components[k].weight + SumWeights(components, k - 1)

\* The data points that have a configured indicator: those that yield a
\* component.
Configured == SelectSeq(data_points,
                  LAMBDA p : HasIndicatorConfig(_normalize_indicator_name(p.indicator)))

PositiveCount == Cardinality({i \in ComponentIndices : Components[i].component_score > 0})

NegativeCount == Cardinality({i \in ComponentIndices : Components[i].component_score < 0})

\* How many components have sub-score s.
Having(s) == Cardinality({i \in ComponentIndices : Components[i].component_score = s})

\* The list without its i-th element.
Without(seq, i) == SubSeq(seq, 1, i - 1) \o SubSeq(seq, i + 1, Len(seq))

\* A data point that carries no usable data: no actual, or neither a
\* consensus nor a previous value.
NoUsableData(p) == IsNone(p.actual) \/ (IsNone(p.consensus) /\ IsNone(p.previous))

ZeroWeight(p) ==
    /\ HasIndicatorConfig(_normalize_indicator_name(p.indicator))
    /\ indicators_config[_normalize_indicator_name(p.indicator)].weight = 0

----------------------------------------------------------------------------
(* C1 *)

\* C1: the aggregate score is sum(component_score * weight) / sum(weight) over
\* exactly the components produced for the input (one per data point with a
\* configured indicator); a single component with sub-score s yields score s,
\* and s = +2 is classified 'USD Forte'.
C1_ScoreIsWeightedMeanOfPresent ==
    (pc = "done" /\ Components # <<>>) =>
        /\ Len(Components) = Len(Configured)
        /\ Returned.score.d > 0
        /\ Returned.score.n * SumWeights(Components, Len(Components))
               = SumContributions(Components, Len(Components)) * Returned.score.d
        /\ Len(Components) = 1 =>
               /\ Returned.score.n = Components[1].component_score * Returned.score.d
               /\ Components[1].component_score = 2 =>
                      Returned.classification = "USD Forte"

\* A single component with sub-score +2 and weight 1.0: score +2, 'USD Forte'.
C1_Witness ==
    /\ pc = "done"
    /\ Len(data_points) = 1
    /\ Len(Components) = 1
    /\ Components[1].component_score = 2
    /\ Components[1].weight = 100
    /\ FracEq(Returned.score, Frac(2, 1))
    /\ Returned.classification = "USD Forte"

----------------------------------------------------------------------------
(* C2 *)

\* C2: removing a data point that carries no usable data, or whose indicator
\* has zero weight, leaves the returned score unchanged.
C2_RemovalLeavesScore ==
    pc = "done" =>
        \A i \in 1..Len(data_points) :
            (NoUsableData(data_points[i]) \/ ZeroWeight(data_points[i])) =>
                FracEq(calculate_usd_score(Without(data_points, i)).score,
                       Returned.score)

----------------------------------------------------------------------------
(* C3 *)

\* C3: the returned score lies in the closed interval [-2, +2].
C3_ScoreInRange ==
    pc = "done" =>
        /\ Returned.score.d > 0
        /\ FracGe(Returned.score, -2)
        /\ FracLe(Returned.score, 2)

\* Several components, all at -2: the score is exactly the lower end.
C3_Witness ==
    /\ pc = "done"
    /\ Len(Components) >= 2
    /\ FracEq(Returned.score, Frac(-2, 1))

----------------------------------------------------------------------------
(* C4 *)

\* C4: for an indicator configured with inversion, an actual below the
\* consensus never ends with a negative component score and an actual above
\* it never with a positive one; for UNEMPLOYMENT the final score is the
\* negation of what the same percentage-point ladder gives a non-inverted
\* indicator (inversion applied exactly once).
C4_InversionOnce ==
    pc = "done" =>
        \A i \in ComponentIndices :
            LET c == Components[i]
            IN  (/\ indicators_config[c.indicator].inversion
                 /\ ~IsNone(c.actual)
                 /\ ~IsNone(c.consensus)) =>
                    /\ Val(c.actual) < Val(c.consensus) => c.component_score >= 0
                    /\ Val(c.actual) > Val(c.consensus) => c.component_score <= 0
                    /\ c.indicator = "UNEMPLOYMENT" =>
                           c.component_score
                               = -InflationLadder(Val(c.actual) - Val(c.consensus))

----------------------------------------------------------------------------
(* C5 *)

\* C5: every boundary value is classified in the stronger-magnitude bucket:
\* +1.5 'USD Forte', +0.5 'Levemente Forte', -0.5 'Levemente Fraco',
\* -1.5 'USD Fraco'; 'Neutro' only for -0.5 < score < +0.5.
C5_BoundariesOutward ==
    pc = "done" =>
        /\ FracEq(Returned.score, Frac(3, 2)) => Returned.classification = "USD Forte"
        /\ FracEq(Returned.score, Frac(1, 2)) => Returned.classification = "Levemente Forte"
        /\ FracEq(Returned.score, Frac(-1, 2)) => Returned.classification = "Levemente Fraco"
        /\ FracEq(Returned.score, Frac(-3, 2)) => Returned.classification = "USD Fraco"
        /\ Returned.classification = "Neutro" =>
               /\ 2 * Returned.score.n > -Returned.score.d
               /\ 2 * Returned.score.n < Returned.score.d

----------------------------------------------------------------------------
(* C6 *)

\* C6: the confidence is 'Alta' if and only if |score| >= 1.5, there are at
\* least 3 components and min(positive, negative sub-scores) <= 1; otherwise
\* 'Media' if and only if there are at least 2 components; otherwise 'Baixa'.
C6_ConfidenceRule ==
    pc = "done" =>
        LET strong == \/ 2 * Returned.score.n >= 3 * Returned.score.d
                      \/ 2 * Returned.score.n <= -3 * Returned.score.d
            high == /\ strong
                    /\ Len(Components) >= 3
                    /\ (PositiveCount <= 1 \/ NegativeCount <= 1)
        IN  /\ Returned.confidence = "Alta" <=> high
            /\ Returned.confidence = "Media" <=> (~high /\ Len(Components) >= 2)
            /\ Returned.confidence = "Baixa" <=> (~high /\ Len(Components) < 2)

\* A strong score from at least 3 components, two or more on each side: the
\* conflict keeps the confidence at 'Media'.
C6_Witness ==
    /\ pc = "done"
    /\ 2 * Returned.score.n >= 3 * Returned.score.d
    /\ Len(Components) >= 3
    /\ PositiveCount >= 2
    /\ NegativeCount >= 2
    /\ Returned.confidence = "Media"

----------------------------------------------------------------------------
(* C7 *)

----------------------------------------------------------------------------
(* C8 *)

\* C8: with a (non-zero) consensus the surprise is computed from
\* actual - consensus; with no consensus and a (non-zero) previous value it is
\* computed from actual - previous.
C8_BaselineSelection ==
    pc = "done" =>
        \A i \in ComponentIndices :
            LET c == Components[i]
            IN  ~IsNone(c.actual) =>
                    /\ (~IsNone(c.consensus) /\ Val(c.consensus) # 0) =>
                           FracEq(c.surprise_pct,
                                  SurprisePct(Val(c.actual), Val(c.consensus)))
                    /\ (/\ IsNone(c.consensus)
                        /\ ~IsNone(c.previous)
                        /\ Val(c.previous) # 0) =>
                           FracEq(c.surprise_pct,
                                  SurprisePct(Val(c.actual), Val(c.previous)))

----------------------------------------------------------------------------
(* C9 *)

\* C9: a component's weight is the configured weight when the data point has
\* a consensus and exactly half of it when it has none; the sub-score is the
\* mapped (and inverted) score, whatever the weight.
C9_WeightDiscount ==
    pc = "done" =>
        \A i \in ComponentIndices :
            LET c == Components[i]
                cfg == indicators_config[c.indicator]
            IN  /\ ~IsNone(c.consensus) => c.weight = cfg.weight
                /\ IsNone(c.consensus) => 2 * c.weight = cfg.weight
                /\ c.component_score \in -2..2
                /\ c.component_score =
                       (IF cfg.inversion THEN -1 ELSE 1)
                       * _map_surprise_to_score(c.indicator, c.surprise_pct,
                                                c.actual, c.consensus)

\* NFP once with a consensus (weight 1.2) and once without (weight 0.6).
C9_Witness ==
    /\ pc = "done"
    /\ \E i, j \in ComponentIndices :
           /\ Components[i].indicator = "NFP"
           /\ ~IsNone(Components[i].consensus)
           /\ Components[i].weight = 120
           /\ Components[j].indicator = "NFP"
           /\ IsNone(Components[j].consensus)
           /\ Components[j].weight = 60

----------------------------------------------------------------------------
(* C10 *)

\* C10: a data point with neither a consensus nor a previous value produces
\* no component: none of the returned components lacks both, and when every
\* data point lacks both the confidence is 'Baixa'.
C10_NoBaselineNoComponent ==
    pc = "done" =>
        /\ \A i \in ComponentIndices :
               ~(IsNone(Components[i].consensus) /\ IsNone(Components[i].previous))
        /\ (\A i \in 1..Len(data_points) :
                IsNone(data_points[i].consensus) /\ IsNone(data_points[i].previous)) =>
               /\ Components = <<>>
               /\ Returned.confidence = "Baixa"

----------------------------------------------------------------------------
(* The ladders of _map_surprise_to_score, one observation per call.  The    *)
(* payroll figures are in thousands of jobs here (110 is 110.0, against a   *)
(* consensus of 100.0: the surprise is the difference itself, in percent);  *)
(* the rates are thousandths of a point around 3.000, in steps of 0.005.    *)

MaxSurprise == 40

MaxDeltaSteps == 50

LadderInputs ==
    {<<Observation(indicator, Some(100 + s), Some(100), None)>> :
        indicator \in {"Nonfarm Payrolls", "ADP Employment Change"},
        s \in -MaxSurprise..MaxSurprise}
    \cup
    {<<Observation(indicator, Some(3000 + 5 * k), Some(3000), None)>> :
        indicator \in {"Consumer Price Index", "Unemployment Rate",
                       "Average Hourly Earnings"},
        k \in -MaxDeltaSteps..MaxDeltaSteps}

InitLadder ==
    /\ data_points \in LadderInputs
    /\ analysis = <<>>
    /\ pc = "ready"
    /\ clock = 0
    /\ OthersIdle

SpecLadder == InitLadder /\ [][Next]_vars

----------------------------------------------------------------------------
(* C11 *)

\* C11: for NFP and ADP the sub-score follows the surprise percentage s:
\* s <= -30 gives -2; -30 < s <= -10 gives -1; -10 < s < +10 gives 0;
\* +10 <= s <= +30 gives +1; s > +30 gives +2.
C11_EmploymentLadderOpenNeutral ==
    (/\ pc = "done"
     /\ Components # <<>>
     /\ Components[1].indicator \in {"NFP", "ADP"}
     /\ ~IsNone(Components[1].actual)
     /\ ~IsNone(Components[1].consensus)
     /\ Val(Components[1].consensus) # 0) =>
        LET s == SurprisePct(Val(Components[1].actual), Val(Components[1].consensus))
            sub == Components[1].component_score
        IN  /\ FracLe(s, -30) => sub = -2
            /\ (FracGt(s, -30) /\ FracLe(s, -10)) => sub = -1
            /\ (FracGt(s, -10) /\ FracLt(s, 10)) => sub = 0
            /\ (FracGe(s, 10) /\ FracLe(s, 30)) => sub = 1
            /\ FracGt(s, 30) => sub = 2

----------------------------------------------------------------------------
(* C12 *)

\* No data point of the list yields a component (vacuously so for the empty
\* list).
NoComponentYielded ==
    \A i \in 1..Len(data_points) : IsNone(_calculate_component_score(data_points[i]))

\* C12: when the list is empty or no data point yields a component, the
\* analysis has score 0, classification 'Neutro', confidence 'Baixa' and an
\* empty indicators list.
C12_EmptyInput ==
    (pc = "done" /\ NoComponentYielded) =>
        /\ Returned.score.d > 0
        /\ Returned.score.n = 0
        /\ Returned.classification = "Neutro"
        /\ Returned.confidence = "Baixa"
        /\ Returned.indicators = <<>>

\* A non-empty list of data points none of which has a configured indicator.
C12_Witness ==
    /\ pc = "done"
    /\ Len(data_points) >= 2
    /\ NoComponentYielded
    /\ Returned.score.n = 0
    /\ Returned.classification = "Neutro"
    /\ Returned.confidence = "Baixa"
    /\ Returned.indicators = <<>>

----------------------------------------------------------------------------
(* C13 *)

Classifications ==
    {"USD Forte", "Levemente Forte", "Neutro", "Levemente Fraco", "USD Fraco"}

Confidences == {"Alta", "Media", "Baixa"}

----------------------------------------------------------------------------
(* Two calls of calculate_usd_score on the same list, the clock running     *)
(* between them.                                                            *)

MaxTwicePoints == 2

MaxClock == 2

InitTwice ==
    /\ data_points \in SeqsUpTo(DataPointSet, MaxTwicePoints)
    /\ analysis = <<>>
    /\ pc = "ready"
    /\ clock = 0
    /\ OthersIdle

\* Time passes between the two calls: datetime.now() moves on.
Tick ==
    /\ pc = "done"
    /\ clock < MaxClock
    /\ clock' = clock + 1
    /\ UNCHANGED <<data_points, analysis, pc, others>>

\* The second call, on the same list.  The engine keeps nothing of the first
\* call: component_scores is a local of the call (line 83).
CalculateUsdScoreAgain ==
    /\ pc = "done"
    /\ analysis' = Append(analysis, USDAnalysis(clock, calculate_usd_score(data_points)))
    /\ pc' = "again"
    /\ UNCHANGED <<data_points, clock, others>>

NextTwice == CalculateUsdScore \/ Tick \/ CalculateUsdScoreAgain

SpecTwice == InitTwice /\ [][NextTwice]_vars

----------------------------------------------------------------------------
(* C14 *)

\* C14: two calls with identical input lists return identical outputs: every
\* field of the second USDAnalysis equals the field of the first.
C14_Idempotent ==
    pc = "again" => analysis[2] = analysis[1]

----------------------------------------------------------------------------
(* main.py: MacroEconomicBot, the automatic and the manual invocation.      *)
(* args is the list of the invocations handled so far.                      *)

MaxInvocations == 2

\* What DataIngestor.get_indicator_data / get_latest_data may hand back.
BotData == {<<>>, <<NfpStrong>>, <<CpiHot, CpiFred>>, <<GdpUnknown>>}

IndicatorTypes == {"NFP", "CPI"}

\* USDAnalysis is a dataclass: it defines neither __getitem__ nor get, so
\* analysis['score'] raises TypeError and analysis.get(...) AttributeError.
USDAnalysisIsDict == FALSE

\* The row HitRateTracker.log_prediction inserts.
log_prediction(event_type, usd_score, classification, timestamp) ==
    [timestamp |-> timestamp,
     event_type |-> event_type,
     usd_score |-> usd_score,
     classification |-> classification]

Message(chat, text) == [chat |-> chat, text |-> text]

InitBot ==
    /\ data_points = <<>>
    /\ analysis = <<>>
    /\ pc = "polling"
    /\ clock = 0
    /\ OthersIdle

\* _process_indicator: delivered tells whether bot.send_message succeeds.
ProcessIndicator ==
    /\ pc = "polling"
    /\ Len(args) < MaxInvocations
    /\ \E indicator_type \in IndicatorTypes, data \in BotData, delivered \in BOOLEAN :
         LET computed == USDAnalysis(clock, calculate_usd_score(data))
         IN  /\ data_points' = data
             /\ args' = Append(args, [kind |-> "automatic",
                                      event_type |-> indicator_type,
                                      computed |-> data # <<>>])
             /\ IF data = <<>>
                THEN UNCHANGED <<analysis, sent, predictions>>
                ELSE /\ analysis' = <<computed>>
                     /\ IF USDAnalysisIsDict /\ delivered
                        THEN \* lines 251-267: send the analysis, then log it
                             /\ sent' = Append(sent, Message("default_chat", "analysis"))
                             /\ predictions' =
                                    Append(predictions,
                                           log_prediction(indicator_type, computed.score,
                                               computed.classification, computed.timestamp))
                        ELSE \* lines 271-281: the error notification, if it goes out
                             /\ sent' = IF delivered
                                        THEN Append(sent, Message("default_chat", "error"))
                                        ELSE sent
                             /\ UNCHANGED predictions
    /\ UNCHANGED <<pc, clock, result, responses>>

\* manual_score_command: delivered tells whether reply_text succeeds.
ManualScoreCommand ==
    /\ pc = "polling"
    /\ Len(args) < MaxInvocations
    /\ \E data \in BotData, delivered \in BOOLEAN :
         LET computed == USDAnalysis(clock, calculate_usd_score(data))
             text == IF data = <<>> THEN "no_data"
                     ELSE IF USDAnalysisIsDict THEN "analysis"
                     ELSE "error"
         IN  /\ data_points' = data
             /\ args' = Append(args, [kind |-> "manual",
                                      event_type |-> "Manual",
                                      computed |-> data # <<>>])
             /\ analysis' = IF data = <<>> THEN analysis ELSE <<computed>>
             /\ sent' = IF delivered THEN Append(sent, Message("reply", text)) ELSE sent
    /\ UNCHANGED <<pc, clock, result, responses, predictions>>

NextBot == ProcessIndicator \/ ManualScoreCommand

SpecBot == InitBot /\ [][NextBot]_vars

----------------------------------------------------------------------------
(* C15 *)

\* C15: every automatic and every manual invocation that obtained data and
\* computed an analysis has written exactly one prediction record: there are
\* as many rows in the predictions table as such invocations.
C15_OnePredictionPerInvocation ==
    Len(predictions) = Cardinality({i \in 1..Len(args) : args[i].computed})

----------------------------------------------------------------------------
(* data_ingestor.py: DataIngestor.get_indicator_data.  args holds the call's *)
(* event_names and whether Config.te_api_key is set; responses records, per  *)
(* event handled, what FRED answered and what TradingEconomics answered on   *)
(* each attempt; result holds the returned list.                             *)

MaxEvents == 2

\* Config.max_retries
max_retries == 3

EventNames == {"Nonfarm Payrolls", "Consumer Price Index", "ISM Manufacturing PMI"}

\* The keys of fred_mapping.
fred_mapping ==
    {"Nonfarm Payrolls", "Unemployment Rate", "Consumer Price Index", "Core CPI",
     "Personal Consumption Expenditures", "Core PCE", "Initial Jobless Claims"}

\* An HTTP answer, or the exception session.get raised instead of one.
Response(status, body) == [kind |-> "response", status |-> status, body |-> body]

Raised(kind) == [kind |-> kind, status |-> 0, body |-> <<>>]

\* The body of a FRED answer is its observations: <<v>> a value, <<>> the
\* missing value '.'.
FredAnswers ==
    {Response(200, <<>>),
     Response(200, <<None>>),
     Response(200, <<Some(3000)>>),
     Response(200, <<Some(2900), Some(3000), None, Some(3100)>>),
     Response(500, <<>>),
     Raised("exception")}

\* The body of a TradingEconomics answer is its items.
TeItem(value, forecast, previous, dated) ==
    [Value |-> value, Forecast |-> forecast, Previous |-> previous, DateTime |-> dated]

TeOk == Response(200, <<TeItem(Some(3100), Some(3000), Some(2900), TRUE),
                        TeItem(Some(3200), None, Some(3100), FALSE)>>)

\* What TradingEconomics answers on the attempts 1..max_retries.
TeAnswers ==
    {<<TeOk, TeOk, TeOk>>,
     <<Response(429, <<>>), TeOk, TeOk>>,
     <<Response(429, <<>>), Response(429, <<>>), Response(429, <<>>)>>,
     <<Response(500, <<>>), TeOk, TeOk>>,
     <<Raised("timeout"), Raised("timeout"), TeOk>>,
     <<Raised("exception"), TeOk, TeOk>>,
     <<Response(200, <<>>), TeOk, TeOk>>}

\* seq[-n:]
LastN(seq, n) == IF Len(seq) <= n THEN seq ELSE SubSeq(seq, Len(seq) - n + 1, Len(seq))

RECURSIVE ParseFredObservations(_, _)
ParseFredObservations(observations, event_name) ==
    IF observations = <<>> THEN <<>>
    ELSE (IF IsNone(Head(observations)) THEN <<>>
          ELSE <<Observation(event_name, Head(observations), None, None)>>)
         \o ParseFredObservations(Tail(observations), event_name)

_parse_fred_data(data, event_name) == ParseFredObservations(LastN(data, 3), event_name)

RECURSIVE ParseTeItems(_, _)
ParseTeItems(items, event_name) ==
    IF items = <<>> THEN <<>>
    ELSE (IF ~Head(items).DateTime THEN <<>>
          ELSE <<Observation(event_name, Head(items).Value, Head(items).Forecast,
                             Head(items).Previous)>>)
         \o ParseTeItems(Tail(items), event_name)

_parse_te_data(data, event_name) == ParseTeItems(LastN(data, 5), event_name)

\* [] for an event without series, for a status other than 200 and for an
\* exception (lines 249-251).
_fetch_from_fred(event_name, response) ==
    IF event_name \notin fred_mapping THEN <<>>
    ELSE IF response.kind # "response" THEN <<>>
    ELSE IF response.status = 200 THEN _parse_fred_data(response.body, event_name)
    ELSE <<>>

\* The retry loop of lines 188-208, from attempt k on.
RECURSIVE TeAttempt(_, _, _)
TeAttempt(event_name, attempts, k) ==
    IF k > max_retries THEN <<>>
    ELSE LET response == attempts[k]
         IN  IF response.kind = "exception" THEN <<>>
             ELSE IF response.kind = "timeout" THEN TeAttempt(event_name, attempts, k + 1)
             ELSE IF response.status = 200 THEN _parse_te_data(response.body, event_name)
             ELSE IF response.status = 429 THEN TeAttempt(event_name, attempts, k + 1)
             ELSE <<>>

_fetch_from_trading_economics(event_name, attempts) == TeAttempt(event_name, attempts, 1)

\* EventPoints without the fallback to TradingEconomics.
EventPointsFredOnly(event_name, fred_response, te_attempts, te_api_key) ==
    _fetch_from_fred(event_name, fred_response)

\* Lines 70-83: what one pass of the loop adds to data_points.
EventPoints(event_name, fred_response, te_attempts, te_api_key) ==
    LET fred_data == _fetch_from_fred(event_name, fred_response)
    IN  IF fred_data # <<>> THEN fred_data
        ELSE IF te_api_key THEN _fetch_from_trading_economics(event_name, te_attempts)
        ELSE <<>>

\* Lists of distinct event names.
EventLists ==
    {names \in SeqsUpTo(EventNames, MaxEvents) :
        \A i, j \in 1..Len(names) : i # j => names[i] # names[j]}

InitIngestor ==
    /\ args \in [event_names : EventLists, te_api_key : BOOLEAN]
    /\ data_points = <<>>
    /\ responses = <<>>
    /\ result = <<>>
    /\ pc = "fetching"
    /\ clock = 0
    /\ analysis = <<>>
    /\ sent = <<>>
    /\ predictions = <<>>

\* One pass of the loop of get_indicator_data.  TradingEconomics is asked
\* only when FRED gave nothing and the key is set.
FetchEvent ==
    /\ pc = "fetching"
    /\ Len(responses) < Len(args.event_names)
    /\ \E fred_response \in FredAnswers, te_attempts \in TeAnswers :
         LET event_name == args.event_names[Len(responses) + 1]
             asked_te == /\ _fetch_from_fred(event_name, fred_response) = <<>>
                         /\ args.te_api_key
         IN  /\ data_points' = data_points \o EventPoints(event_name, fred_response,
                                                  te_attempts, args.te_api_key)
             /\ responses' = Append(responses,
                                 [fred |-> IF event_name \in fred_mapping
                                           THEN <<fred_response>> ELSE <<>>,
                                  te |-> IF asked_te THEN te_attempts ELSE <<>>])
    /\ UNCHANGED <<args, result, pc, clock, analysis, sent, predictions>>

\* Lines 88-89: last_update is set and the list is returned; result is
\* <<the returned list, last_update>>.
ReturnDataPoints ==
    /\ pc = "fetching"
    /\ Len(responses) = Len(args.event_names)
    /\ result' = <<data_points, clock>>
    /\ pc' = "returned"
    /\ UNCHANGED <<args, data_points, responses, clock, analysis, sent, predictions>>

NextIngestor == FetchEvent \/ ReturnDataPoints

SpecIngestor == InitIngestor /\ [][NextIngestor]_vars

----------------------------------------------------------------------------
(* C16 *)

\* The returned data points of one event.
PointsFor(event_name) == SelectSeq(result[1], LAMBDA p : p.indicator = event_name)

\* The values FRED delivered for the i-th event: those of the last three
\* observations of a 200 answer.
FredValues(i) ==
    LET r == responses[i]
    IN  IF r.fred # <<>> /\ r.fred[1].kind = "response" /\ r.fred[1].status = 200
        THEN SelectSeq(LastN(r.fred[1].body, 3), LAMBDA o : ~IsNone(o))
        ELSE <<>>

\* The attempts at which TradingEconomics answered the i-th event with 200,
\* every earlier attempt having ended in 429 or in a timeout.
TeSuccesses(i) ==
    LET r == responses[i]
    IN  {k \in 1..Len(r.te) :
            /\ r.te[k].kind = "response" /\ r.te[k].status = 200
            /\ \A j \in 1..(k - 1) :
                   \/ r.te[j].kind = "timeout"
                   \/ r.te[j].kind = "response" /\ r.te[j].status = 429}

\* C16: get_indicator_data never raises on a fetch failure: the call returns,
\* an event whose fetches all failed is absent from the result, and the data
\* points of an event whose fetch succeeded are all present, in order.
C16_PartialFailureTolerated ==
    /\ pc \in {"fetching", "returned"}
    /\ pc = "returned" =>
        /\ Len(responses) = Len(args.event_names)
        /\ \A j \in 1..Len(result[1]) :
               \E i \in 1..Len(args.event_names) :
                   result[1][j].indicator = args.event_names[i]
        /\ \A i \in 1..Len(args.event_names) :
               LET event_name == args.event_names[i]
                   got == PointsFor(event_name)
                   values == FredValues(i)
                   successes == TeSuccesses(i)
               IN  /\ values # <<>> =>
                          got = [j \in 1..Len(values) |->
                                    Observation(event_name, values[j], None, None)]
                   /\ (values = <<>> /\ successes # {}) =>
                          \A k \in successes :
                              LET items == SelectSeq(LastN(responses[i].te[k].body, 5),
                                                     LAMBDA item : item.DateTime)
                              IN  got = [j \in 1..Len(items) |->
                                            Observation(event_name, items[j].Value,
                                                items[j].Forecast, items[j].Previous)]
                   /\ (values = <<>> /\ successes = {}) => got = <<>>

\* Two events: FRED raised for the first and TradingEconomics failed too, so
\* it is absent; the second came from TradingEconomics after a 429.
C16_Witness ==
    /\ pc = "returned"
    /\ Len(args.event_names) = 2
    /\ responses[1].fred # <<>>
    /\ responses[1].fred[1].kind = "exception"
    /\ responses[1].te # <<>>
    /\ TeSuccesses(1) = {}
    /\ PointsFor(args.event_names[1]) = <<>>
    /\ 2 \in TeSuccesses(2)
    /\ PointsFor(args.event_names[2]) # <<>>
    /\ result[1] = PointsFor(args.event_names[2])

----------------------------------------------------------------------------
(* hit_rate_tracker.py: HitRateTracker._calculate_hit.  The score and the   *)
(* DXY return (a percentage) are counted in hundredths: 0.5 is 50.          *)

MaxHitScore == 200

MaxDxyReturn == 2

\* _calculate_hit counting every non-neutral prediction with a flat DXY as a
\* hit (>= 0 and <= 0 for > 0 and < 0).
CalculateHitFlatCounts(usd_score, dxy_return) ==
    IF Abs(usd_score) <= 50 THEN TRUE
    ELSE IF usd_score > 50 /\ dxy_return >= 0 THEN TRUE
    ELSE IF usd_score < -50 /\ dxy_return <= 0 THEN TRUE
    ELSE FALSE

_calculate_hit(usd_score, dxy_return) ==
    IF Abs(usd_score) <= 50 THEN TRUE
    ELSE IF usd_score > 50 /\ dxy_return > 0 THEN TRUE
    ELSE IF usd_score < -50 /\ dxy_return < 0 THEN TRUE
    ELSE FALSE

InitHit ==
    /\ args \in [usd_score : -MaxHitScore..MaxHitScore,
                  dxy_return : -MaxDxyReturn..MaxDxyReturn]
    /\ result = <<>>
    /\ pc = "ready"
    /\ data_points = <<>>
    /\ analysis = <<>>
    /\ clock = 0
    /\ responses = <<>>
    /\ sent = <<>>
    /\ predictions = <<>>

\* Line 184: hit = self._calculate_hit(usd_score, dxy_return)
CalculateHit ==
    /\ pc = "ready"
    /\ result' = <<_calculate_hit(args.usd_score, args.dxy_return)>>
    /\ pc' = "done"
    /\ UNCHANGED <<args, data_points, analysis, clock, responses, sent, predictions>>

NextHit == CalculateHit

SpecHit == InitHit /\ [][NextHit]_vars

----------------------------------------------------------------------------
(* C17 *)

\* C17: a prediction with |score| <= 0.5 is always a hit; one with
\* score > +0.5 is a hit if and only if the DXY return is > 0; one with
\* score < -0.5 is a hit if and only if the DXY return is < 0.
C17_HitCriteria ==
    pc = "done" =>
        LET hit == result[1]
        IN  /\ (-50 <= args.usd_score /\ args.usd_score <= 50) => hit
            /\ args.usd_score > 50 => (hit <=> args.dxy_return > 0)
            /\ args.usd_score < -50 => (hit <=> args.dxy_return < 0)

\* A non-neutral prediction and a flat DXY: a miss.
C17_Witness ==
    /\ pc = "done"
    /\ args.usd_score = 51
    /\ args.dxy_return = 0
    /\ result[1] = FALSE

----------------------------------------------------------------------------
(* config.py: the surprise_thresholds of Config, and calls of the engine    *)
(* under Configs that differ in them.  The thresholds of NFP are fractions  *)
(* of the consensus, written in percent (0.30 is 30); the others are        *)
(* percentage points in thousandths (0.20 is 200).  args holds the          *)
(* thresholds of the Config in force.                                       *)

InflationThresholds ==
    [strong_negative |-> -200, negative |-> -100, neutral_low |-> -90,
     neutral_high |-> 90, positive |-> 100, strong_positive |-> 200]

surprise_thresholds ==
    [NFP |-> [strong_negative |-> -30, negative |-> -10, neutral_low |-> -10,
              neutral_high |-> 10, positive |-> 10, strong_positive |-> 30],
     UNEMPLOYMENT |-> [strong_negative |-> 200, negative |-> 100, neutral_low |-> -90,
                       neutral_high |-> 90, positive |-> -100, strong_positive |-> -200],
     AHE |-> InflationThresholds,
     CPI |-> InflationThresholds]

\* The Config as shipped, and two edits of it: strong_positive of NFP lowered
\* from 0.30 to 0.20, strong_negative of CPI raised from -0.20 to -0.15.
ThresholdConfigs ==
    {surprise_thresholds,
     [surprise_thresholds EXCEPT !.NFP.strong_positive = 20],
     [surprise_thresholds EXCEPT !.CPI.strong_negative = -150]}

InitThresholds ==
    /\ args \in [surprise_thresholds : ThresholdConfigs]
    /\ data_points \in LadderInputs
    /\ analysis = <<>>
    /\ pc = "ready"
    /\ clock = 0
    /\ result = <<>>
    /\ responses = <<>>
    /\ sent = <<>>
    /\ predictions = <<>>

SpecThresholds == InitThresholds /\ [][Next]_vars

----------------------------------------------------------------------------
(* C18 *)

\* C18: for an indicator with surprise_thresholds in the Config, the bucket
\* boundaries applied by _map_surprise_to_score are the configured values:
\* strictly between two neighbouring configured cutoffs (and beyond the
\* outermost ones) the mapped score is the score of that bucket.
C18_CutoffsFromConfig ==
    (/\ pc = "done"
     /\ Components # <<>>
     /\ Components[1].indicator \in DOMAIN args.surprise_thresholds
     /\ ~IsNone(Components[1].actual)
     /\ ~IsNone(Components[1].consensus)) =>
        LET c == Components[1]
            th == args.surprise_thresholds[c.indicator]
            x == IF c.indicator = "NFP" THEN c.surprise_pct
                 ELSE Frac(Val(c.actual) - Val(c.consensus), 1)
            mapped == _map_surprise_to_score(c.indicator, c.surprise_pct,
                                             c.actual, c.consensus)
        IN  IF th.strong_negative < th.strong_positive
            THEN /\ FracLt(x, th.strong_negative) => mapped = -2
                 /\ (FracGt(x, th.strong_negative) /\ FracLt(x, th.negative)) => mapped = -1
                 /\ (FracGt(x, th.neutral_low) /\ FracLt(x, th.neutral_high)) => mapped = 0
                 /\ (FracGt(x, th.positive) /\ FracLt(x, th.strong_positive)) => mapped = 1
                 /\ FracGt(x, th.strong_positive) => mapped = 2
            ELSE /\ FracGt(x, th.strong_negative) => mapped = -2
                 /\ (FracLt(x, th.strong_negative) /\ FracGt(x, th.negative)) => mapped = -1
                 /\ (FracGt(x, th.neutral_low) /\ FracLt(x, th.neutral_high)) => mapped = 0
                 /\ (FracLt(x, th.positive) /\ FracGt(x, th.strong_positive)) => mapped = 1
                 /\ FracLt(x, th.strong_positive) => mapped = 2

----------------------------------------------------------------------------
(* dynamic_data_engine.py: DynamicDataEngine.calculate_dynamic_usd_score.   *)
(* The score is counted in tenths (1.2 is 12): every step of the function   *)
(* adds a multiple of 0.1 and the result is rounded to two decimals.  The   *)
(* NFP value is in thousands of jobs, the unemployment rate and the DXY     *)
(* change in tenths of a percent, core PCE in hundredths of a percent.      *)
(* args is the data dictionary: a key that is absent is None.               *)

DynamicData ==
    [nfp : {None, Some(250), Some(180), Some(100)},
     unemployment : {None, Some(35), Some(45), Some(55)},
     core_pce : {None, Some(40), Some(25), Some(10)},
     dxy_change_pct : {None, Some(8), Some(2), Some(-8)},
     shutdown_risk : {"inactive", "active", "active_without_risk_level"},
     fomc_this_week : BOOLEAN]

\* The dictionary returned at lines 394-400 when the computation raised.
DynamicErrorResult ==
    [score |-> 0, classification |-> "Neutro", confidence |-> "Baixa",
     components |-> <<>>]

calculate_dynamic_usd_score(data) ==
    LET nfp == IF IsNone(data.nfp) THEN 0
               ELSE IF Val(data.nfp) > 200 THEN 12
               ELSE IF Val(data.nfp) > 150 THEN 6
               ELSE -6
        unemployment == IF IsNone(data.unemployment) THEN 0
                        ELSE IF Val(data.unemployment) < 40 THEN 10
                        ELSE IF Val(data.unemployment) < 50 THEN 5
                        ELSE -5
        core_pce == IF IsNone(data.core_pce) THEN 0
                    ELSE IF Val(data.core_pce) > 30 THEN 8
                    ELSE IF Val(data.core_pce) > 20 THEN 4
                    ELSE -4
        dxy == IF IsNone(data.dxy_change_pct) THEN 0
               ELSE IF Abs(Val(data.dxy_change_pct)) > 5
               THEN (IF Val(data.dxy_change_pct) > 0 THEN 3 ELSE -3)
               ELSE 0
        shutdown == IF data.shutdown_risk = "inactive" THEN 0 ELSE -5
        fomc == IF data.fomc_this_week THEN 3 ELSE 0
        score == nfp + unemployment + core_pce + dxy + shutdown + fomc
        components ==
            (IF IsNone(data.nfp) THEN <<>> ELSE <<"NFP">>)
            \o (IF IsNone(data.unemployment) THEN <<>> ELSE <<"Unemployment">>)
            \o (IF IsNone(data.core_pce) THEN <<>> ELSE <<"Core PCE">>)
            \o (IF IsNone(data.dxy_change_pct) THEN <<>> ELSE <<"DXY">>)
            \o (IF data.shutdown_risk = "inactive" THEN <<>> ELSE <<"Shutdown risk">>)
            \o (IF data.fomc_this_week THEN <<"FOMC meeting this week">> ELSE <<>>)
    IN  \* line 356: shutdown_risk['risk_level'] raises KeyError
        IF data.shutdown_risk = "active_without_risk_level" THEN DynamicErrorResult
        ELSE
        [score |-> score,
         classification |->
             IF score >= 15 THEN "USD Forte"
             ELSE IF score >= 5 THEN "Levemente Forte"
             ELSE IF score <= -15 THEN "USD Fraco"
             ELSE IF score <= -5 THEN "Levemente Fraco"
             ELSE "Neutro",
         confidence |->
             IF Len(components) >= 4 THEN "Alta"
             ELSE IF Len(components) >= 2 THEN "Media"
             ELSE "Baixa",
         components |-> components]

InitDynamic ==
    /\ args \in DynamicData
    /\ result = <<>>
    /\ pc = "ready"
    /\ data_points = <<>>
    /\ analysis = <<>>
    /\ clock = 0
    /\ responses = <<>>
    /\ sent = <<>>
    /\ predictions = <<>>

CalculateDynamicUsdScore ==
    /\ pc = "ready"
    /\ result' = <<calculate_dynamic_usd_score(args)>>
    /\ pc' = "done"
    /\ UNCHANGED <<args, data_points, analysis, clock, responses, sent, predictions>>

NextDynamic == CalculateDynamicUsdScore

SpecDynamic == InitDynamic /\ [][NextDynamic]_vars

----------------------------------------------------------------------------
(* C19 *)

\* C19: for every data dictionary the score returned by
\* calculate_dynamic_usd_score lies in the closed interval [-2, +2].
C19_DynamicScoreInRange ==
    pc = "done" => (-20 <= result[1].score /\ result[1].score <= 20)

----------------------------------------------------------------------------
(* macro_usd_bot_completo.py: MacroUSDBot.calculate_usd_score.  The float   *)
(* sub-scores are kept to four decimals (2 is 20000, rounded to the nearest *)
(* ten-thousandth), the weights count hundredths, so a contribution and the *)
(* total count millionths; the returned score is round(total, 2), counted   *)
(* in hundredths.  args holds what fetch_av_indicator returned for the five *)
(* fetched indicators the score uses: None is the empty dictionary.         *)

\* a / b to the nearest integer, b > 0
RoundDiv(a, b) == (2 * a + b) \div (2 * b)

Clamp(lo, hi, x) == IF x < lo THEN lo ELSE IF x > hi THEN hi ELSE x

\* max(-2, min(2, (curr - prev) / abs(prev) * 2)), 0.0 when prev == 0
norm_pos(curr, prev) ==
    IF prev = 0 THEN 0
    ELSE Clamp(-20000, 20000, RoundDiv((curr - prev) * 20000, Abs(prev)))

norm_neg(curr, prev) ==
    IF prev = 0 THEN 0
    ELSE Clamp(-20000, 20000, RoundDiv((prev - curr) * 20000, Abs(prev)))

Reading(last, previous) == Some([last |-> last, previous |-> previous])

\* What fetch_av_indicator returns: {} or a dictionary with 'last' and
\* 'previous' (0 when the value is missing).
AvAnswers == {None, Reading(300, 150), Reading(95, 100), Reading(100, 0)}

\* The dictionary of get_live_indicators, restricted to the keys
\* calculate_usd_score reads; the last four are the fixed placeholders (in
\* tenths, jolts in thousands).
get_live_indicators(fetched) ==
    [nfp |-> fetched.nfp,
     unemployment |-> fetched.unemployment,
     claims |-> fetched.claims,
     cpi_yoy |-> fetched.cpi,
     pce_yoy |-> fetched.pce,
     ahe |-> Reading(3, 3),
     ism_manufacturing |-> Reading(480, 475),
     ism_services |-> Reading(520, 515),
     jolts |-> Reading(8500, 8700)]

weights ==
    [nfp |-> 25, unemployment |-> 15, ahe |-> 10, cpi_yoy |-> 15, pce_yoy |-> 10,
     ism_manufacturing |-> 10, ism_services |-> 10, jolts |-> 3, claims |-> 2]

\* The indicators scored with norm_pos; the others are scored with norm_neg.
PositiveIndicators == {"nfp", "ism_manufacturing", "ism_services", "jolts"}

\* Lines 200-204 and 218-222: the component of indicator k.
MacroComponent(data, k) ==
    LET s == IF IsNone(data[k]) THEN 0
             ELSE IF k \in PositiveIndicators
             THEN norm_pos(Val(data[k]).last, Val(data[k]).previous)
             ELSE norm_neg(Val(data[k]).last, Val(data[k]).previous)
    IN  [score |-> s, weight |-> weights[k], contribution |-> s * weights[k]]

RECURSIVE SumContribution(_, _)
SumContribution(components, keys) ==
    IF keys = {} THEN 0
    ELSE LET k == CHOOSE key \in keys : TRUE
         IN  components[k].contribution + SumContribution(components, keys \ {k})

MacroUSDBot_calculate_usd_score(fetched) ==
    LET data == get_live_indicators(fetched)
        components == [k \in DOMAIN weights |-> MacroComponent(data, k)]
        total == SumContribution(components, DOMAIN weights)
    IN  [score |-> RoundDiv(total, 10000),
         classification |->
             IF total >= 1500000 THEN "FORTE ALTA"
             ELSE IF total >= 500000 THEN "MODERADA ALTA"
             ELSE IF total >= -500000 THEN "NEUTRO"
             ELSE IF total >= -1500000 THEN "MODERADA BAIXA"
             ELSE "FORTE BAIXA",
         confidence |->
             IF Abs(total) > 1200000 THEN "Alta"
             ELSE IF Abs(total) > 600000 THEN "Media"
             ELSE "Baixa",
         components |-> components,
         raw |-> data]

InitMacro ==
    /\ args \in [nfp : AvAnswers, unemployment : AvAnswers, cpi : AvAnswers,
                  pce : AvAnswers, claims : AvAnswers]
    /\ result = <<>>
    /\ pc = "ready"
    /\ data_points = <<>>
    /\ analysis = <<>>
    /\ clock = 0
    /\ responses = <<>>
    /\ sent = <<>>
    /\ predictions = <<>>

MacroCalculateUsdScore ==
    /\ pc = "ready"
    /\ result' = <<MacroUSDBot_calculate_usd_score(args)>>
    /\ pc' = "done"
    /\ UNCHANGED <<args, data_points, analysis, clock, responses, sent, predictions>>

NextMacro == MacroCalculateUsdScore

SpecMacro == InitMacro /\ [][NextMacro]_vars

----------------------------------------------------------------------------
(* C20 *)

\* The indicators whose live data has 'last' and 'previous'.
WithData == {k \in DOMAIN weights : ~IsNone(result[1].raw[k])}

RECURSIVE SumWeight(_)
SumWeight(keys) ==
    IF keys = {} THEN 0
    ELSE LET k == CHOOSE key \in keys : TRUE
         IN  weights[k] + SumWeight(keys \ {k})

\* C20: an indicator without data does not deflate the score: the score is
\* the weighted mean of the sub-scores of the indicators that have data,
\* normalised by the sum of their weights only (to within one hundredth, the
\* precision of the returned score).
C20_MissingDoesNotDeflate ==
    pc = "done" =>
        LET present_weight == SumWeight(WithData)
            present_sum == SumContribution(result[1].components, WithData)
        IN  Abs(result[1].score * 10000 * present_weight - 100 * present_sum)
                <= 10000 * present_weight

-----------------------------------------------------------------------------
(* C21 *)

\* The sub-score _map_surprise_to_score gives to the same indicator and
\* consensus when the actual value is `actual` (thousandths).
LadderScoreAt(component, actual) ==
    _map_surprise_to_score(component.indicator,
                           SurprisePct(actual, Val(component.consensus)),
                           Some(actual), component.consensus)

\* C21: for CPI, CORE_CPI, PCE, CORE_PCE and AHE with actual and consensus
\* present the sub-score is a non-decreasing function of
\* delta = actual - consensus: no smaller delta gets a larger sub-score, a
\* negative delta never gets a positive sub-score and a positive delta
\* never gets a negative one.
C21_PercentagePointLadderMonotone ==
    (/\ pc = "done"
     /\ Components # <<>>
     /\ Components[1].indicator \in {"CPI", "CORE_CPI", "PCE", "CORE_PCE", "AHE"}
     /\ ~IsNone(Components[1].actual)
     /\ ~IsNone(Components[1].consensus)) =>
        LET delta == Val(Components[1].actual) - Val(Components[1].consensus)
            sub == Components[1].component_score
        IN  /\ delta < 0 => sub <= 0
            /\ delta > 0 => sub >= 0
            /\ \A k \in -MaxDeltaSteps..MaxDeltaSteps :
                  LET lower == Val(Components[1].consensus) + 5 * k
                  IN  lower <= Val(Components[1].actual) =>
                          LadderScoreAt(Components[1], lower) <= sub

-----------------------------------------------------------------------------
(* The pipeline get_latest_data -> calculate_usd_score (main.py 151-158) *)

\* Lines 153-158 of manual_score_command: an empty list is answered at once;
\* any other list returned by the ingestor is scored.
ScoreLatestData ==
    /\ pc = "returned"
    /\ analysis' = IF result[1] = <<>> THEN analysis
                   ELSE <<USDAnalysis(clock, calculate_usd_score(result[1]))>>
    /\ pc' = "done"
    /\ UNCHANGED <<args, data_points, responses, result, clock, sent, predictions>>

NextPipeline == FetchEvent \/ ReturnDataPoints \/ ScoreLatestData

SpecPipeline == InitIngestor /\ [][NextPipeline]_vars

-----------------------------------------------------------------------------
(* C22 *)

\* C22: in the pipeline get_latest_data -> calculate_usd_score the indicators
\* list of the returned analysis never holds two components with the same
\* indicator name, whatever the ingestor returned.
C22_OneComponentPerIndicator ==
    (pc = "done" /\ analysis # <<>>) =>
        \A i, j \in ComponentIndices :
            i # j => Components[i].indicator # Components[j].indicator

-----------------------------------------------------------------------------
(* EconomicScheduler (scheduler.py) *)

\* Dates are day numbers counted from 1 January 2024 (= 1); months are
\* numbered from January 2024 (= 1) on, so 13 is January 2025.  MonthFirst[m]
\* is the day number of the first day of month m.
MonthFirst == <<1, 32, 61, 92, 122, 153, 183, 214, 245, 275, 306, 336, 367, 398, 426>>

Date(month, day) == MonthFirst[month] + day - 1

month(date) == CHOOSE m \in 1..(Len(MonthFirst) - 1) :
                   MonthFirst[m] <= date /\ date < MonthFirst[m + 1]

day(date) == date - MonthFirst[month(date)] + 1

\* datetime.weekday(): Monday is 0; 1 January 2024 was a Monday.
weekday(date) == (date - 1) % 7

\* The days `today` is drawn from: the year 2024.
Days2024 == 1..(MonthFirst[13] - 1)

\* The hours of the day datetime.now() is observed at: before and after the
\* 14:00 of a FOMC meeting.
Hours == {9, 15}

us_holidays_2024 ==
    {Date(1, 1), Date(1, 15), Date(2, 19), Date(3, 29), Date(5, 27), Date(6, 19),
     Date(7, 4), Date(9, 2), Date(10, 14), Date(11, 11), Date(11, 28), Date(12, 25)}

\* The keys of schedule_rules.
schedule_rules == {"NFP", "ADP", "CPI", "PCE", "ISM_MFG", "ISM_SERVICES", "CLAIMS", "FOMC"}

_is_holiday(date) == date \in us_holidays_2024

_get_first_weekday_of_month(date, wd) ==
    LET first_day == Date(month(date), 1)
        days_ahead == wd - weekday(first_day)
    IN  first_day + (IF days_ahead < 0 THEN days_ahead + 7 ELSE days_ahead)

_get_first_friday(from_date) ==
    LET first_day == Date(month(from_date), 1)
        first_friday == _get_first_weekday_of_month(first_day, 4)
    IN  IF from_date > first_friday
        THEN _get_first_weekday_of_month(Date(month(first_day) + 1, 1), 4)
        ELSE first_friday

\* The loop "while self._is_holiday(target_date.date())" of _get_next_weekday.
RECURSIVE SkipHolidayWeeks(_)
SkipHolidayWeeks(target_date) ==
    IF _is_holiday(target_date) THEN SkipHolidayWeeks(target_date + 7)
    ELSE target_date

_get_next_weekday(from_date, wd) ==
    LET days_ahead == wd - weekday(from_date)
    IN  SkipHolidayWeeks(from_date + (IF days_ahead <= 0 THEN days_ahead + 7
                                      ELSE days_ahead))

\* The loops "while d.weekday() >= 5 or self._is_holiday(d.date())", moving
\* forward and backward.
RECURSIVE ForwardToBusinessDay(_)
ForwardToBusinessDay(date) ==
    IF weekday(date) >= 5 \/ _is_holiday(date) THEN ForwardToBusinessDay(date + 1)
    ELSE date

RECURSIVE BackToBusinessDay(_)
BackToBusinessDay(date) ==
    IF weekday(date) >= 5 \/ _is_holiday(date) THEN BackToBusinessDay(date - 1)
    ELSE date

_get_mid_month_date(from_date) ==
    LET target_day == 13
    IN  ForwardToBusinessDay(IF day(from_date) > target_day
                             THEN Date(month(from_date) + 1, target_day)
                             ELSE Date(month(from_date), target_day))

RECURSIVE _get_end_month_date(_)
_get_end_month_date(from_date) ==
    LET next_month == Date(month(from_date) + 1, 1)
        last_day == BackToBusinessDay(next_month - 1)
        pce_date == ForwardToBusinessDay(last_day - 3)
    IN  IF from_date > pce_date THEN _get_end_month_date(next_month)
        ELSE pce_date

_get_first_business_day(from_date) ==
    ForwardToBusinessDay(IF day(from_date) > 1 THEN Date(month(from_date) + 1, 1)
                         ELSE Date(month(from_date), 1))

\* The loop of _get_third_business_day.
RECURSIVE CountBusinessDays(_, _)
CountBusinessDays(current_date, business_days_count) ==
    IF business_days_count < 3
    THEN LET next_date == current_date + 1
         IN  CountBusinessDays(next_date,
                 IF weekday(next_date) < 5 /\ ~_is_holiday(next_date)
                 THEN business_days_count + 1 ELSE business_days_count)
    ELSE current_date

_get_third_business_day(from_date) ==
    CountBusinessDays(_get_first_business_day(from_date), 1)

\* The meetings all start at 14:00.
fomc_meetings_2024 ==
    <<Date(1, 31), Date(3, 20), Date(5, 1), Date(6, 12), Date(7, 31), Date(9, 18),
      Date(11, 7), Date(12, 18)>>

_get_next_fomc_date(now) ==
    LET later == {i \in 1..Len(fomc_meetings_2024) :
                    \/ fomc_meetings_2024[i] > now.date
                    \/ fomc_meetings_2024[i] = now.date /\ 14 > now.hour}
    IN  IF later = {} THEN None
        ELSE Some(fomc_meetings_2024[CHOOSE i \in later : \A j \in later : i <= j])

\* The date of the datetime returned, or None.
get_next_release_date(indicator, now) ==
    IF indicator \notin schedule_rules THEN None
    ELSE IF indicator = "NFP" THEN Some(_get_first_friday(now.date))
    ELSE IF indicator = "ADP" THEN Some(_get_next_weekday(now.date, 2))
    ELSE IF indicator = "CPI" THEN Some(_get_mid_month_date(now.date))
    ELSE IF indicator = "PCE" THEN Some(_get_end_month_date(now.date))
    ELSE IF indicator = "ISM_MFG" THEN Some(_get_first_business_day(now.date))
    ELSE IF indicator = "ISM_SERVICES" THEN Some(_get_third_business_day(now.date))
    ELSE IF indicator = "CLAIMS" THEN Some(_get_next_weekday(now.date, 3))
    ELSE _get_next_fomc_date(now)

should_process_today(indicator, now) ==
    LET today == now.date
        next_release == get_next_release_date(indicator, now)
    IN  IF _is_holiday(today) THEN FALSE
        ELSE ~IsNone(next_release) /\ Val(next_release) = today

\* A call of should_process_today(indicator) at the moment `now`.
InitScheduler ==
    /\ args \in [indicator : schedule_rules \cup {"GDP"},
                 now : [date : Days2024, hour : Hours]]
    /\ result = <<>>
    /\ pc = "asked"
    /\ clock = 0
    /\ data_points = <<>>
    /\ analysis = <<>>
    /\ responses = <<>>
    /\ sent = <<>>
    /\ predictions = <<>>

ShouldProcessToday ==
    /\ pc = "asked"
    /\ result' = <<should_process_today(args.indicator, args.now)>>
    /\ pc' = "answered"
    /\ UNCHANGED <<args, clock, data_points, analysis, responses, sent, predictions>>

NextScheduler == ShouldProcessToday

SpecScheduler == InitScheduler /\ [][NextScheduler]_vars

-----------------------------------------------------------------------------
(* C23 *)

BusinessDay(date) == weekday(date) < 5 /\ ~_is_holiday(date)

\* The number of business days of the month of `date` that come before it.
BusinessDaysBefore(date) ==
    Cardinality({d \in Date(month(date), 1)..(date - 1) : BusinessDay(d)})

\* The release day of the schedule rule of an indicator.
ReleaseDay(indicator, date) ==
    IF indicator = "ADP" THEN weekday(date) = 2
    ELSE IF indicator = "CLAIMS" THEN weekday(date) = 3
    ELSE IF indicator = "NFP" THEN weekday(date) = 4 /\ day(date) <= 7
    ELSE IF indicator = "ISM_MFG"
    THEN BusinessDay(date) /\ BusinessDaysBefore(date) = 0
    ELSE BusinessDay(date) /\ BusinessDaysBefore(date) = 2

\* C23: should_process_today(indicator) is True on a day that is not a
\* holiday and is the release day of the indicator's schedule rule (ADP a
\* Wednesday, CLAIMS a Thursday, NFP the first Friday of the month, ISM_MFG
\* the first business day, ISM_SERVICES the third business day), and False
\* on every other day.
C23_ProcessOnReleaseDay ==
    (/\ pc = "answered"
     /\ args.indicator \in {"ADP", "CLAIMS", "NFP", "ISM_MFG", "ISM_SERVICES"}) =>
        (result[1] <=> (/\ ~_is_holiday(args.now.date)
                        /\ ReleaseDay(args.indicator, args.now.date)))

-----------------------------------------------------------------------------
(* HitRateTracker: logging and delayed DXY collection (hit_rate_tracker.py) *)

\* Times are minutes.  In this specification
\*   predictions  is the table (row i has id i),
\*   args         holds the collection task created with each row,
\*   responses    is the list of _get_dxy_return calls made,
\*   sent         is the list of UPDATE statements executed.
MaxPredictions == 2
MaxTime == 210

intervals == <<30, 60, 120>>

\* The timestamps passed to log_prediction: None stands for datetime.now().
PredictionTimestamps == {None, Some(0)}

PredictionInputs ==
    [event_type : {"NFP", "CPI"},
     scored : {[usd_score |-> 120, classification |-> "Levemente Forte"],
               [usd_score |-> -120, classification |-> "Levemente Fraco"]},
     timestamp : PredictionTimestamps]

\* What _get_dxy_return can return: None or a return in percent.
DxyReturns == {None, Some(1)}

\* A row of the table predictions: the inserted columns, the id and the
\* columns dxy_{interval}m and hit_{interval}m, NULL at first.
PredictionRow(id, inserted) ==
    [id |-> id,
     timestamp |-> inserted.timestamp,
     event_type |-> inserted.event_type,
     usd_score |-> inserted.usd_score,
     classification |-> inserted.classification,
     dxy |-> [k \in 1..Len(intervals) |-> None],
     hit |-> [k \in 1..Len(intervals) |-> None]]

\* The coroutine _schedule_dxy_collection(prediction_time, event_type),
\* asleep until `wake` before the window number `k`.
CollectionTask(prediction_time, event_type, now) ==
    [prediction_time |-> prediction_time,
     event_type |-> event_type,
     logged_at |-> now,
     k |-> 1,
     wake |-> now + intervals[1],
     at |-> "sleep",
     dxy_return |-> None]

\* The end of one pass of the loop: the next pass begins with
\* asyncio.sleep(interval * 60), counted from now.
NextPass(task, now) ==
    IF task.k = Len(intervals)
    THEN [task EXCEPT !.k = @ + 1, !.at = "done", !.dxy_return = None]
    ELSE [task EXCEPT !.k = @ + 1, !.wake = now + intervals[task.k + 1],
                      !.at = "sleep", !.dxy_return = None]

\* SELECT ... WHERE timestamp = ? AND event_type = ?, then fetchone(): the
\* id of the first matching row, or None.
SelectPrediction(table, timestamp, event_type) ==
    LET matching == {i \in 1..Len(table) : /\ table[i].timestamp = timestamp
                                           /\ table[i].event_type = event_type}
    IN  IF matching = {} THEN None
        ELSE Some(CHOOSE i \in matching : \A j \in matching : i <= j)

\* The table after _update_prediction_with_dxy.
_update_prediction_with_dxy(table, timestamp, event_type, k, dxy_return) ==
    LET selected == SelectPrediction(table, timestamp, event_type)
    IN  IF IsNone(selected) THEN table
        ELSE LET pred_id == Val(selected)
                 hit == _calculate_hit(table[pred_id].usd_score, dxy_return)
             IN  [table EXCEPT ![pred_id].dxy[k] = Some(dxy_return),
                               ![pred_id].hit[k] = Some(IF hit THEN 1 ELSE 0)]

InitTracker ==
    /\ predictions = <<>>
    /\ args = <<>>
    /\ responses = <<>>
    /\ sent = <<>>
    /\ clock = 0
    /\ pc = "running"
    /\ result = <<>>
    /\ data_points = <<>>
    /\ analysis = <<>>

\* log_prediction: the row is inserted and the collection task is created.
\* Two calls that read datetime.now() never get the same timestamp.
LogPrediction ==
    /\ pc = "running"
    /\ Len(predictions) < MaxPredictions
    /\ \E input \in PredictionInputs :
         LET timestamp == IF IsNone(input.timestamp) THEN clock
                          ELSE Val(input.timestamp)
             inserted == log_prediction(input.event_type, input.scored.usd_score,
                                        input.scored.classification, timestamp)
         IN  /\ IsNone(input.timestamp) =>
                    \A i \in 1..Len(predictions) : predictions[i].timestamp # clock
             /\ predictions' = Append(predictions,
                                      PredictionRow(Len(predictions) + 1, inserted))
             /\ args' = Append(args, CollectionTask(timestamp, input.event_type, clock))
    /\ UNCHANGED <<responses, sent, clock, pc, result, data_points, analysis>>

\* Lines 114-117: the sleep of task i is over and _get_dxy_return is awaited;
\* without data the loop goes on to the next window.
GetDxyReturn ==
    /\ pc = "running"
    /\ \E i \in 1..Len(args), dxy_return \in DxyReturns :
         /\ args[i].at = "sleep"
         /\ args[i].wake <= clock
         /\ responses' = Append(responses,
                                [task |-> i, interval |-> intervals[args[i].k],
                                 at |-> clock, dxy_return |-> dxy_return])
         /\ args' = [args EXCEPT ![i] =
                        IF IsNone(dxy_return) THEN NextPass(args[i], clock)
                        ELSE [args[i] EXCEPT !.at = "update",
                                             !.dxy_return = dxy_return]]
    /\ UNCHANGED <<predictions, sent, clock, pc, result, data_points, analysis>>

\* Lines 118-120: _update_prediction_with_dxy, then the next pass.
UpdatePredictionWithDxy ==
    /\ pc = "running"
    /\ \E i \in 1..Len(args) :
         /\ args[i].at = "update"
         /\ LET selected == SelectPrediction(predictions, args[i].prediction_time,
                                             args[i].event_type)
            IN  /\ predictions' = _update_prediction_with_dxy(predictions,
                                      args[i].prediction_time, args[i].event_type,
                                      args[i].k, Val(args[i].dxy_return))
                /\ sent' = IF IsNone(selected) THEN sent
                           ELSE Append(sent, [task |-> i, pred_id |-> Val(selected),
                                              interval |-> intervals[args[i].k]])
         /\ args' = [args EXCEPT ![i] = NextPass(args[i], clock)]
    /\ UNCHANGED <<responses, clock, pc, result, data_points, analysis>>

\* Half an hour passes once every task that is due has run.
TimePasses ==
    /\ pc = "running"
    /\ clock < MaxTime
    /\ \A i \in 1..Len(args) :
         /\ args[i].at # "update"
         /\ args[i].at = "sleep" => args[i].wake > clock
    /\ clock' = clock + 30
    /\ UNCHANGED <<predictions, args, responses, sent, pc, result, data_points, analysis>>

NextTracker == LogPrediction \/ GetDxyReturn \/ UpdatePredictionWithDxy \/ TimePasses

SpecTracker == InitTracker /\ [][NextTracker]_vars

-----------------------------------------------------------------------------
(* C24 *)

\* C24: the DXY return of the 30-, 60- and 120-minute window of a
\* prediction logged at time T is collected at T+30, T+60 and T+120, in
\* that order, and a window without data does not keep the later windows
\* from being collected.
C24_CollectedAtWindowEnd ==
    pc = "running" =>
        /\ \A n \in 1..Len(responses) :
              responses[n].at = args[responses[n].task].logged_at + responses[n].interval
        /\ \A m, n \in 1..Len(responses) :
              (m < n /\ responses[m].task = responses[n].task) =>
                  responses[m].interval < responses[n].interval
        /\ \A i \in 1..Len(args) :
              args[i].at = "done" =>
                  \A k \in 1..Len(intervals) :
                      \E n \in 1..Len(responses) :
                          responses[n].task = i /\ responses[n].interval = intervals[k]

-----------------------------------------------------------------------------
(* C25 *)

\* C25: whatever the interleaving of the collection tasks, the DXY return
\* and hit flag measured for a prediction are written to the row of that
\* prediction and to no other row, also when two predictions share
\* timestamp and event_type, and a prediction whose DXY data was available
\* has its own columns set once its task is over.
C25_UpdatesOwnRow ==
    pc = "running" =>
        /\ \A n \in 1..Len(sent) : sent[n].pred_id = sent[n].task
        /\ \A n \in 1..Len(responses) :
              (/\ ~IsNone(responses[n].dxy_return)
               /\ args[responses[n].task].at = "done") =>
                  \E k \in 1..Len(intervals) :
                     /\ intervals[k] = responses[n].interval
                     /\ ~IsNone(predictions[responses[n].task].hit[k])

-----------------------------------------------------------------------------
(* The retry loop of _fetch_from_trading_economics, attempt by attempt *)

\* In this specification
\*   args       is the event name and what the server answers on each attempt,
\*   clock      is the loop variable `attempt`,
\*   responses  is the list of answers to the HTTP requests made,
\*   sent       is the list of asyncio.sleep calls made, in seconds,
\*   result     holds the returned list.
retry_backoff == 1

TeAttemptAnswers ==
    {TeOk, Response(429, <<>>), Response(500, <<>>), Raised("timeout"),
     Raised("exception")}

InitRetry ==
    /\ args \in [event_name : EventNames,
                 attempts : [1..max_retries -> TeAttemptAnswers]]
    /\ clock = 0
    /\ responses = <<>>
    /\ sent = <<>>
    /\ result = <<>>
    /\ pc = "attempting"
    /\ data_points = <<>>
    /\ analysis = <<>>
    /\ predictions = <<>>

\* One pass of the loop "for attempt in range(self.config.max_retries)".
RequestAttempt ==
    /\ pc = "attempting"
    /\ clock < max_retries
    /\ LET attempt == clock
           response == args.attempts[attempt + 1]
           returned(list) == /\ result' = <<list>>
                             /\ pc' = "returned"
                             /\ UNCHANGED <<clock, sent>>
           retried(waits) == /\ sent' = sent \o waits
                             /\ clock' = attempt + 1
                             /\ UNCHANGED <<result, pc>>
       IN  /\ responses' = Append(responses, response)
           /\ IF response.kind = "exception" THEN returned(<<>>)
              ELSE IF response.kind = "timeout"
              THEN retried(IF attempt < max_retries - 1
                           THEN <<[attempt |-> attempt, wait_time |-> retry_backoff]>>
                           ELSE <<>>)
              ELSE IF response.status = 200
              THEN returned(_parse_te_data(response.body, args.event_name))
              ELSE IF response.status = 429
              THEN retried(<<[attempt |-> attempt,
                              wait_time |-> retry_backoff * (2 ^ attempt)]>>)
              ELSE returned(<<>>)
    /\ UNCHANGED <<args, data_points, analysis, predictions>>

\* Line 208: the loop is over and [] is returned.
RetriesExhausted ==
    /\ pc = "attempting"
    /\ clock = max_retries
    /\ result' = <<<<>>>>
    /\ pc' = "returned"
    /\ UNCHANGED <<args, clock, responses, sent, data_points, analysis, predictions>>

NextRetry == RequestAttempt \/ RetriesExhausted

SpecRetry == InitRetry /\ [][NextRetry]_vars

-----------------------------------------------------------------------------
(* C26 *)

\* C26: _fetch_from_trading_economics makes at most max_retries HTTP
\* attempts; it returns the parsed data of the first 200, goes on after a 429
\* with a wait of retry_backoff * 2^attempt and after a timeout, makes no
\* further attempt after any other status, returns the empty list when the
\* attempts are used up, and performs no wait after the last attempt.
C26_BoundedRetries ==
    pc \in {"attempting", "returned"} =>
        /\ Len(responses) <= max_retries
        /\ \A n \in 1..Len(responses) :
              n < Len(responses) =>
                  \/ responses[n].kind = "timeout"
                  \/ responses[n].kind = "response" /\ responses[n].status = 429
        /\ \A n \in 1..Len(sent) :
              /\ sent[n].attempt < max_retries - 1
              /\ LET answer == args.attempts[sent[n].attempt + 1]
                 IN  (answer.kind = "response" /\ answer.status = 429) =>
                         sent[n].wait_time = retry_backoff * (2 ^ sent[n].attempt)
        /\ pc = "returned" =>
              LET last == responses[Len(responses)]
              IN  IF last.kind = "response" /\ last.status = 200
                  THEN result[1] = _parse_te_data(last.body, args.event_name)
                  ELSE result[1] = <<>>

-----------------------------------------------------------------------------
(* BotDaemon (bot_daemon.py) *)

\* In this specification
\*   args       is the daemon object: bot_process (None or the pid of the
\*              process last started), running, restart_count, and
\*              `caller`, the place start_bot was called from,
\*   pc         is the position of the main thread,
\*   responses  is the process table: responses[pid] is the status of the
\*              bot process with that pid,
\*   sent       holds the signal delivered, with the position of the main
\*              thread at that moment,
\*   result     holds the value returned by run(),
\*   clock      counts the calls of start_bot that returned True.
MaxProcesses == 3

\* A bot process is running and writing its log, alive with a log older
\* than five minutes, a zombie, or gone.
UnhealthyStatuses == {"inactive", "zombie", "dead"}

SIGTERM == 15

\* Positions of the main thread inside start_bot.
InStartBot == {"kill_existing_bots", "popen", "startup_wait", "startup_check"}

is_bot_healthy(daemon, processes) ==
    IF IsNone(daemon.bot_process) THEN FALSE
    ELSE processes[Val(daemon.bot_process)] = "running"

\* The process table after terminate() and wait(), or kill().
stop_bot(daemon, processes) ==
    IF IsNone(daemon.bot_process) THEN processes
    ELSE [processes EXCEPT ![Val(daemon.bot_process)] = "dead"]

\* The process table after every process running a bot script was killed.
kill_existing_bots(processes) == [pid \in 1..Len(processes) |-> "dead"]

\* run() has installed the signal handlers and calls start_bot.
InitDaemon ==
    /\ args = [bot_process |-> None, running |-> TRUE, restart_count |-> 0,
               caller |-> "run"]
    /\ pc = "kill_existing_bots"
    /\ responses = <<>>
    /\ sent = <<>>
    /\ result = <<>>
    /\ clock = 0
    /\ data_points = <<>>
    /\ analysis = <<>>
    /\ predictions = <<>>

DaemonIdle == UNCHANGED <<data_points, analysis, predictions>>

\* start_bot returns `success` to its caller: run() gives up on False and
\* enters monitor_loop on True; monitor_loop goes on to its sleep.
StartBotReturns(success) ==
    /\ clock' = IF success THEN clock + 1 ELSE clock
    /\ IF args.caller = "run"
       THEN IF success THEN pc' = "while_running" /\ result' = result
            ELSE pc' = "exited" /\ result' = <<FALSE>>
       ELSE pc' = "sleep" /\ result' = result

\* Line 106.
KillExistingBots ==
    /\ pc = "kill_existing_bots"
    /\ responses' = kill_existing_bots(responses)
    /\ pc' = "popen"
    /\ UNCHANGED <<args, sent, result, clock>>
    /\ DaemonIdle

\* Lines 112-119: a new process is started.
Popen ==
    /\ pc = "popen"
    /\ Len(responses) < MaxProcesses
    /\ responses' = Append(responses, "running")
    /\ args' = [args EXCEPT !.bot_process = Some(Len(responses) + 1)]
    /\ pc' = "startup_wait"
    /\ UNCHANGED <<sent, result, clock>>
    /\ DaemonIdle

\* Lines 112-119 and 133-135: Popen or open raises and start_bot returns
\* False.
PopenRaises ==
    /\ pc = "popen"
    /\ StartBotReturns(FALSE)
    /\ UNCHANGED <<args, responses, sent>>
    /\ DaemonIdle

\* Line 122: time.sleep(10).
StartupWait ==
    /\ pc = "startup_wait"
    /\ pc' = "startup_check"
    /\ UNCHANGED <<args, responses, sent, result, clock>>
    /\ DaemonIdle

\* Lines 124-131.
StartupCheck ==
    /\ pc = "startup_check"
    /\ LET success == is_bot_healthy(args, responses)
       IN  /\ args' = [args EXCEPT !.restart_count =
                          IF is_bot_healthy(args, responses) THEN @ + 1 ELSE @]
           /\ StartBotReturns(success)
    /\ UNCHANGED <<responses, sent>>
    /\ DaemonIdle

\* Line 161: while self.running; lines 216-217 when the loop is over.
WhileRunning ==
    /\ pc = "while_running"
    /\ IF args.running THEN pc' = "health_check" /\ result' = result
       ELSE pc' = "exited" /\ result' = <<TRUE>>
    /\ UNCHANGED <<args, responses, sent, clock>>
    /\ DaemonIdle

\* Lines 163-175.
HealthCheck ==
    /\ pc = "health_check"
    /\ pc' = IF is_bot_healthy(args, responses) THEN "sleep"
             ELSE IF ~IsNone(args.bot_process) THEN "stop_bot"
             ELSE "kill_existing_bots"
    /\ args' = [args EXCEPT !.caller = "monitor"]
    /\ UNCHANGED <<responses, sent, result, clock>>
    /\ DaemonIdle

\* Lines 167-168, then start_bot is called (line 171).
StopBot ==
    /\ pc = "stop_bot"
    /\ responses' = stop_bot(args, responses)
    /\ pc' = "kill_existing_bots"
    /\ UNCHANGED <<args, sent, result, clock>>
    /\ DaemonIdle

\* Line 183: time.sleep(self.check_interval).
Sleep ==
    /\ pc = "sleep"
    /\ pc' = "while_running"
    /\ UNCHANGED <<args, responses, sent, result, clock>>
    /\ DaemonIdle

\* signal_handler runs in the main thread between two of its steps; a
\* sleep that was interrupted goes on afterwards.
SignalHandler ==
    /\ sent = <<>>
    /\ pc # "exited"
    /\ sent' = <<[signum |-> SIGTERM, at |-> pc, caller |-> args.caller]>>
    /\ args' = [args EXCEPT !.running = FALSE]
    /\ responses' = stop_bot(args, responses)
    /\ UNCHANGED <<pc, result, clock>>
    /\ DaemonIdle

\* A running bot process dies, becomes a zombie or stops writing its log.
BotFails ==
    /\ pc # "exited"
    /\ \E pid \in 1..Len(responses), status \in UnhealthyStatuses :
         /\ responses[pid] = "running"
         /\ responses' = [responses EXCEPT ![pid] = status]
    /\ UNCHANGED <<args, pc, sent, result, clock>>
    /\ DaemonIdle

NextDaemon ==
    \/ KillExistingBots \/ Popen \/ PopenRaises \/ StartupWait \/ StartupCheck
    \/ WhileRunning \/ HealthCheck \/ StopBot \/ Sleep \/ SignalHandler \/ BotFails

SpecDaemon == InitDaemon /\ [][NextDaemon]_vars

-----------------------------------------------------------------------------
(* C27 *)

\* C27: from run() until a shutdown signal the daemon keeps the bot running:
\* it does not give up before a signal is delivered, after a failed start it
\* tries again (a failed initial start included), and restart_count is the
\* number of successful starts.
C27_KeepsRetryingUntilSignal ==
    /\ pc = "exited" => sent # <<>>
    /\ args.restart_count = clock

-----------------------------------------------------------------------------
(* C28 *)

\* The signal was delivered while the main thread was in monitor_loop or in
\* the start_bot called from it.
SignalInMonitorLoop ==
    /\ sent # <<>>
    /\ \/ sent[1].at \in {"while_running", "health_check", "stop_bot", "sleep"}
       \/ sent[1].at \in InStartBot /\ sent[1].caller = "monitor"

StillRunning == {pid \in 1..Len(responses) : responses[pid] \in {"running", "inactive"}}

\* C28: once signal_handler has run and the monitor loop is over, no bot
\* process started by the daemon is still running, wherever in the monitor
\* loop the signal was delivered (between the health check and start_bot and
\* during the startup wait of start_bot included).
C28_NoBotAfterShutdown ==
    (pc = "exited" /\ SignalInMonitorLoop) => StillRunning = {}

============================================================================
